---- MODULE Spec2Model ----
(***************************************************************************)
(* AirCommand: the per-gesture activation state machine (BaseGesture) and  *)
(* the frame loop that drives it (AirCommandController).                   *)
(*                                                                         *)
(* Time is counted in ticks of 0.1 s, so 0.2 s = 2 and 0.6 s = 6.          *)
(* Landmark coordinates are counted in hundredths of the normalised image  *)
(* height, so the thresholds 0.01 and 0.02 are 1 and 2.                    *)
(***************************************************************************)
EXTENDS Integers, Sequences, FiniteSets, TLC

VARIABLES
    clock,            \* the last value time.time() returned
    gestures,         \* AirCommandController.gestures: name -> BaseGesture fields
    current_gesture,  \* AirCommandController.current_gesture
    volume,           \* the system output volume osascript reads and sets
    pc,               \* position of run(): "read", "hands", "key", "done"
    handsLeft,        \* hands of results.multi_hand_landmarks still to process
    event,            \* history: what the last step did
    episodeStart,     \* history: time of the start_gesture call that opened the episode
    firedAt,          \* history: time recorded by the last successful firing of the episode
    held,             \* history: gesture shown in every frame since held.since
    lastCall,         \* history: last of start_gesture / end_gesture called on a gesture
    frameSteps,       \* history: _process_gestures calls made for the current frame
    lastFire,         \* history: time recorded by the last successful firing of any gesture
    lockscreen        \* the fields of a LockScreenGesture object

vars == <<clock, gestures, current_gesture, volume, pc, handsLeft, event,
          episodeStart, firedAt, held, lastCall, frameSteps, lastFire, lockscreen>>

----------------------------------------------------------------------------
\* Bounds of the model

MaxTime == 8      \* the clock stops advancing at this tick
MaxStep == 1      \* ticks that may pass between two clock reads of one handler

\* Program constants
VolumeUpCooldown == 6
VolumeUpActivationDelay == 2
VolumeDownCooldown == 6
VolumeDownActivationDelay == 2
volume_step == 5
max_volume == 100
min_volume == 0
LockScreenCooldown == 50
LockScreenActivationDelay == 10
MaxHands == 2     \* mp.solutions.hands.Hands(): max_num_hands is left at its default

None == "None"
NoTime == 0 - 1

Max(a, b) == IF a >= b THEN a ELSE b
Min(a, b) == IF a <= b THEN a ELSE b

\* Every value a clock read can return in the model
Times == 0..MaxTime

\* Values of a clock read that follows a read of t (monotonic clock)
Reads(t) == t..Min(t + MaxStep, MaxTime)

----------------------------------------------------------------------------
\* gestures/__init__.py

\* list(AVAILABLE_GESTURES.keys()): the registration order
list_gestures == <<"volume_up", "volume_down">>

GestureNames == {list_gestures[i] : i \in 1..Len(list_gestures)}

----------------------------------------------------------------------------
\* gestures/base_gesture.py

BaseGesture(name, cooldown, activation_delay) ==
    [name |-> name, cooldown |-> cooldown, activation_delay |-> activation_delay,
     last_execution_time |-> 0, is_active |-> FALSE, activation_time |-> 0,
     has_activated |-> FALSE]

can_execute(self, current_time) ==
    current_time - self.last_execution_time >= self.cooldown

\* Variant: start_gesture without the is_active guard
start_gesture_unguarded(self, now) ==
    [self EXCEPT !.is_active = TRUE, !.activation_time = now, !.has_activated = FALSE]

\* Variant: end_gesture that leaves has_activated as it is
end_gesture_keeps_activated(self) ==
    [self EXCEPT !.is_active = FALSE, !.activation_time = 0]

\* Variant: end_gesture that clears the episode but leaves is_active as it is
end_gesture_stays_active(self) ==
    [self EXCEPT !.activation_time = 0, !.has_activated = FALSE]

\* Variant: the hold delay compared with > instead of >=
is_ready_strict(self, tD, tC) ==
    IF ~self.is_active
    THEN FALSE
    ELSE IF ~self.has_activated
         THEN tD - self.activation_time > self.activation_delay
         ELSE can_execute(self, tC)

\* Variant: no is_active check, the duration computed in place
is_ready_unchecked(self, tD, tC) ==
    IF ~self.has_activated
    THEN tD - self.activation_time >= self.activation_delay
    ELSE can_execute(self, tC)

\* Variant: end_gesture that also clears last_execution_time
end_gesture_clears_last(self) ==
    [self EXCEPT !.is_active = FALSE, !.activation_time = 0,
                 !.has_activated = FALSE, !.last_execution_time = 0]

\* Variant: mark_executed that records nothing
mark_executed_noop(self, now) == self

mark_executed(self, now) ==
    [self EXCEPT !.last_execution_time = now]

start_gesture(self, now) ==
    IF ~self.is_active
    THEN [self EXCEPT !.is_active = TRUE, !.activation_time = now,
                      !.has_activated = FALSE]
    ELSE self

end_gesture(self) ==
    [self EXCEPT !.is_active = FALSE, !.activation_time = 0,
                 !.has_activated = FALSE]

get_gesture_duration(self, now) ==
    IF self.is_active THEN now - self.activation_time ELSE 0

\* Variant: no hold delay before the first firing
is_ready_no_delay(self, tD, tC) ==
    IF ~self.is_active
    THEN FALSE
    ELSE IF ~self.has_activated
         THEN TRUE
         ELSE can_execute(self, tC)

\* tD is the clock read of get_gesture_duration, tC the later one of can_execute
is_ready_to_execute(self, tD, tC) ==
    IF ~self.is_active
    THEN FALSE
    ELSE IF ~self.has_activated
         THEN get_gesture_duration(self, tD) >= self.activation_delay
         ELSE can_execute(self, tC)

\* landmarks is <<thumb, index, middle, ring, pinky>>, each the finger's
\* tip.y - joint.y (thumb: IP joint, others: PIP joint)
get_finger_states(landmarks) ==
    [i \in 1..5 |->
        IF i = 1
        THEN (IF landmarks[1] < 0 - 2 THEN 1 ELSE 0)
        ELSE (IF landmarks[i] < 0 - 1 THEN 1 ELSE 0)]

----------------------------------------------------------------------------
\* gestures/volume_up_gesture.py, gestures/volume_down_gesture.py

VolumeUpGesture == BaseGesture("volume_up", VolumeUpCooldown, VolumeUpActivationDelay)

VolumeDownGesture ==
    BaseGesture("volume_down", VolumeDownCooldown, VolumeDownActivationDelay)

get_gesture(gesture_name) ==
    IF gesture_name = "volume_up" THEN VolumeUpGesture ELSE VolumeDownGesture

VolumeUpDetect(landmarks) ==
    /\ get_finger_states(landmarks) = <<1, 0, 0, 0, 0>>
    /\ landmarks[1] < 0 - 1

VolumeDownDetect(landmarks) ==
    /\ get_finger_states(landmarks) = <<0, 0, 0, 0, 0>>
    /\ landmarks[1] > 1

detect(name, landmarks) ==
    IF name = "volume_up" THEN VolumeUpDetect(landmarks) ELSE VolumeDownDetect(landmarks)

\* The outcomes of the two osascript calls of execute
Outcomes == {"ok", "read_fail", "set_fail"}

\* Variant: volume up without the upper limit
VolumeUpNew_unclamped(current_volume) == current_volume + volume_step

VolumeUpNew(current_volume) == Min(current_volume + volume_step, max_volume)

VolumeDownNew(current_volume) == Max(current_volume - volume_step, min_volume)

new_volume(name, current_volume) ==
    IF name = "volume_up" THEN VolumeUpNew(current_volume)
    ELSE VolumeDownNew(current_volume)

\* Variant: execute without the readiness check
execute_unchecked(self, vol, tD, tC, tM, outcome) ==
    IF outcome = "read_fail" \/ outcome = "set_fail"
    THEN [self |-> self, vol |-> vol, ret |-> FALSE,
          ready |-> is_ready_to_execute(self, tD, tC)]
    ELSE [self |-> mark_executed(self, tM), vol |-> new_volume(self.name, vol),
          ret |-> TRUE, ready |-> is_ready_to_execute(self, tD, tC)]

\* Variant: mark_executed called before the volume is set
execute_marks_first(self, vol, tD, tC, tM, outcome) ==
    IF ~is_ready_to_execute(self, tD, tC)
    THEN [self |-> self, vol |-> vol, ret |-> FALSE, ready |-> FALSE]
    ELSE IF outcome = "read_fail"
    THEN [self |-> self, vol |-> vol, ret |-> FALSE, ready |-> TRUE]
    ELSE IF outcome = "set_fail"
    THEN [self |-> mark_executed(self, tM), vol |-> vol, ret |-> FALSE, ready |-> TRUE]
    ELSE [self |-> mark_executed(self, tM), vol |-> new_volume(self.name, vol),
          ret |-> TRUE, ready |-> TRUE]

\* execute of VolumeUpGesture / VolumeDownGesture: the gesture afterwards, the
\* volume afterwards, the value returned and whether the readiness check passed.
\* tM is the clock read of mark_executed.
execute(self, vol, tD, tC, tM, outcome) ==
    IF ~is_ready_to_execute(self, tD, tC)
    THEN [self |-> self, vol |-> vol, ret |-> FALSE, ready |-> FALSE]
    ELSE IF outcome = "read_fail"
    THEN [self |-> self, vol |-> vol, ret |-> FALSE, ready |-> TRUE]
    ELSE IF outcome = "set_fail"
    THEN [self |-> self, vol |-> vol, ret |-> FALSE, ready |-> TRUE]
    ELSE [self |-> mark_executed(self, tM), vol |-> new_volume(self.name, vol),
          ret |-> TRUE, ready |-> TRUE]

----------------------------------------------------------------------------
\* gestures/lockscreen_gesture.py

LockScreenGesture ==
    BaseGesture("lockscreen", LockScreenCooldown, LockScreenActivationDelay)

\* What the two osascript calls of lock_screen / fallback_lock_screen do: the
\* first succeeds; the first exits non-zero and the fallback succeeds; both exit
\* non-zero (CalledProcessError twice); subprocess.run raises another exception
\* (osascript cannot be started)
LockOutcomes == {"lock_ok", "lock_fallback_ok", "lock_all_failed", "lock_os_error"}

\* fallback_lock_screen, lines 70-84: TRUE when an exception leaves the method.
\* CalledProcessError is caught and only printed.
fallback_lock_screen_raises(outcome) == FALSE

\* lock_screen, lines 51-68: TRUE when an exception leaves the method.
\* CalledProcessError of the first call is caught and the fallback is tried;
\* any other exception is not caught here.
lock_screen_raises(outcome) ==
    IF outcome = "lock_ok" THEN FALSE
    ELSE IF outcome = "lock_os_error" THEN TRUE
    ELSE fallback_lock_screen_raises(outcome)

\* LockScreenGesture.execute, lines 32-49: the gesture afterwards, the value
\* returned and whether the readiness check passed
lock_execute(self, tD, tC, tM, outcome) ==
    IF ~is_ready_to_execute(self, tD, tC)
    THEN [self |-> self, ret |-> FALSE, ready |-> FALSE]
    ELSE IF lock_screen_raises(outcome)
    THEN [self |-> self, ret |-> FALSE, ready |-> TRUE]
    ELSE [self |-> mark_executed(self, tM), ret |-> TRUE, ready |-> TRUE]

----------------------------------------------------------------------------
\* The hand poses the landmark detector reports in the model: thumbs up, thumbs
\* down, a thumb raised exactly 0.02 over a fist (not extended), a thumb
\* lowered exactly 0.01 under a fist (not pointing down), thumb up with the
\* index finger out, open palm
HandPoses ==
    { <<0 - 3, 0, 0, 0, 0>>, <<2, 0, 0, 0, 0>>, <<0 - 2, 0, 0, 0, 0>>,
      <<1, 0, 0, 0, 0>>, <<0 - 3, 0 - 2, 0, 0, 0>>,
      <<0 - 3, 0 - 2, 0 - 2, 0 - 2, 0 - 2>> }

\* The system volume when the program starts
InitVolumes == {3, max_volume}

\* The history value of a step that calls nothing on a gesture
Idle == [op |-> "idle", g |-> None, t |-> NoTime, flag |-> FALSE, val |-> 0]

Ev(op, g, t, flag, val) == [op |-> op, g |-> g, t |-> t, flag |-> flag, val |-> val]

NotHeld == [g |-> None, since |-> NoTime]

Init ==
    /\ clock = 0
    /\ gestures = [n \in GestureNames |-> get_gesture(n)]
    /\ current_gesture = None
    /\ volume \in InitVolumes
    /\ pc = "read"
    /\ handsLeft = 0
    /\ event = Idle
    /\ episodeStart = [n \in GestureNames |-> NoTime]
    /\ firedAt = [n \in GestureNames |-> NoTime]
    /\ held = NotHeld
    /\ lastCall = [n \in GestureNames |-> None]
    /\ frameSteps = 0
    /\ lastFire = NoTime
    /\ lockscreen = LockScreenGesture

----------------------------------------------------------------------------
\* app.py: AirCommandController

\* The results of the detectors for one hand, in registration order
Matches(landmarks) ==
    [j \in 1..Len(list_gestures) |-> detect(list_gestures[j], landmarks)]

\* Variant: the loop without its break, the last match wins
first_match_no_break(matches, i) ==
    IF \E j \in i..Len(matches) : matches[j]
    THEN CHOOSE j \in i..Len(matches) :
           matches[j] /\ \A k \in (j + 1)..Len(matches) : ~matches[k]
    ELSE 0

\* _process_gestures, lines 88-92: the position of the first detector from i
\* on that matches, 0 when none does (the loop breaks at the first match)
first_match(matches, i) ==
    IF \E j \in i..Len(matches) : matches[j]
    THEN CHOOSE j \in i..Len(matches) :
           matches[j] /\ \A k \in i..(j - 1) : ~matches[k]
    ELSE 0

\* The detectors' results as a number: 1 for volume_up, 2 for volume_down
MatchCode(landmarks) ==
    (IF detect("volume_up", landmarks) THEN 1 ELSE 0)
      + (IF detect("volume_down", landmarks) THEN 2 ELSE 0)

\* _process_gestures, lines 86-92: the first gesture in registration order
\* whose detect matches, None when none does
FirstMatch(landmarks, i) ==
    \* the loop of lines 88-92 from position i on
    LET j == first_match(Matches(landmarks), i)
    IN  IF j = 0 THEN None ELSE list_gestures[j]

detected_gesture(landmarks) == FirstMatch(landmarks, 1)

\* Variant: the previous gesture is not ended when another one is detected
StateChange_no_end(gs, cur, detected, tS) ==
    IF detected = cur
    THEN gs
    ELSE IF detected # None
         THEN [gs EXCEPT ![detected] = start_gesture(gs[detected], tS)]
         ELSE IF cur # None THEN [gs EXCEPT ![cur] = end_gesture(gs[cur])] ELSE gs

\* _process_gestures, lines 94-105: the gestures after the change of current
\* gesture; tS is the clock read of start_gesture
StateChange(gs, cur, detected, tS) ==
    IF detected = cur
    THEN gs
    ELSE LET ended == IF cur # None
                      THEN [gs EXCEPT ![cur] = end_gesture(gs[cur])]
                      ELSE gs
         IN  IF detected # None
             THEN [ended EXCEPT ![detected] = start_gesture(ended[detected], tS)]
             ELSE ended

\* Variant: has_activated is never set
AfterExecute_forgets(self, ret) == self

\* _process_gestures, lines 107-112: has_activated is set after a successful execute
AfterExecute(self, ret) ==
    IF ret /\ ~self.has_activated THEN [self EXCEPT !.has_activated = TRUE] ELSE self

\* History of the end_gesture call of line 98 on gesture old
EndCalled(h, old, v) == IF old # None THEN [h EXCEPT ![old] = v] ELSE h

\* _process_gestures, lines 84-113, for one hand. tS, tD, tC and tM are the
\* clock reads of start_gesture, get_gesture_duration, can_execute and
\* mark_executed, each made only when the code reaches it. (\E x \in {e}
\* names the value of e, as a local variable of the code does.)
process_gestures(landmarks) ==
    \E detected \in {detected_gesture(landmarks)} :
    \E old \in {IF detected # current_gesture THEN current_gesture ELSE None} :
    \E starts \in {detected # current_gesture /\ detected # None} :
    \E tS \in (IF starts THEN Reads(clock) ELSE {clock}) :
    \E gs1 \in {StateChange(gestures, current_gesture, detected, tS)} :
      IF detected = None
      THEN /\ gestures' = gs1
           /\ current_gesture' = None
           /\ clock' = tS
           /\ volume' = volume
           /\ event' = Ev("process", None, NoTime, FALSE, MatchCode(landmarks))
           /\ lastFire' = lastFire
           /\ episodeStart' = EndCalled(episodeStart, old, NoTime)
           /\ firedAt' = EndCalled(firedAt, old, NoTime)
           /\ lastCall' = EndCalled(lastCall, old, "end")
           /\ held' = NotHeld
      ELSE
      \E self \in {gs1[detected]} :
      \E tD \in Reads(tS) :
      \E tC \in (IF self.has_activated THEN Reads(tD) ELSE {tD}) :
      \E ready \in {is_ready_to_execute(self, tD, tC)} :
      \E outcome \in (IF ready THEN Outcomes ELSE {"ok"}) :
      \E tM \in (IF ready /\ outcome = "ok" THEN Reads(tC) ELSE {tC}) :
      \E r \in {execute(self, volume, tD, tC, tM, outcome)} :
        /\ gestures' = [gs1 EXCEPT ![detected] = AfterExecute(r.self, r.ret)]
        /\ current_gesture' = detected
        /\ clock' = tM
        /\ volume' = r.vol
        /\ event' = IF r.ret
                    THEN Ev("fire", detected, tM, ~self.has_activated, MatchCode(landmarks))
                    ELSE IF r.ready
                    THEN Ev("fail", detected, tC, ~self.has_activated, MatchCode(landmarks))
                    ELSE Ev("process", detected, NoTime, FALSE, MatchCode(landmarks))
        /\ lastFire' = IF r.ret THEN tM ELSE lastFire
        /\ episodeStart' = IF starts
                           THEN [EndCalled(episodeStart, old, NoTime) EXCEPT ![detected] = tS]
                           ELSE episodeStart
        /\ firedAt' = IF r.ret
                      THEN [EndCalled(firedAt, old, NoTime) EXCEPT ![detected] = tM]
                      ELSE IF starts
                      THEN [EndCalled(firedAt, old, NoTime) EXCEPT ![detected] = NoTime]
                      ELSE firedAt
        /\ lastCall' = IF starts
                       THEN [EndCalled(lastCall, old, "end") EXCEPT ![detected] = "start"]
                       ELSE lastCall
        /\ held' = IF held.g = detected THEN held
                   ELSE [g |-> detected, since |-> clock]

\* run, lines 40-43: cap.read() fails and the loop continues
CaptureFail ==
    /\ pc = "read"
    /\ event' = Idle
    /\ UNCHANGED <<clock, gestures, current_gesture, volume, pc, handsLeft,
                   episodeStart, firedAt, held, lastCall, frameSteps, lastFire,
                   lockscreen>>

\* run, lines 40-54: a frame is captured and the detector reports n hands
Capture ==
    /\ pc = "read"
    /\ \E n \in 0..MaxHands :
         /\ handsLeft' = n
         /\ held' = IF n = 0 THEN NotHeld ELSE held
         /\ event' = Idle
    /\ pc' = "hands"
    /\ frameSteps' = 0
    /\ UNCHANGED <<clock, gestures, current_gesture, volume, episodeStart, firedAt,
                   lastCall, lastFire, lockscreen>>

\* run, lines 55-66: one iteration of the loop over the hands of the frame
ProcessHand ==
    /\ pc = "hands"
    /\ handsLeft > 0
    /\ \E landmarks \in HandPoses : process_gestures(landmarks)
    /\ handsLeft' = handsLeft - 1
    /\ frameSteps' = frameSteps + 1
    /\ pc' = pc
    /\ lockscreen' = lockscreen

\* _draw_status, lines 115-139: the duration and the readiness shown
draw_status ==
    IF current_gesture # None
    THEN \E t1 \in Reads(clock) : \E tD \in Reads(t1) :
         \E tC \in (IF gestures[current_gesture].has_activated THEN Reads(tD) ELSE {tD}) :
           /\ clock' = tC
           /\ event' = Ev("status", current_gesture, t1,
                          is_ready_to_execute(gestures[current_gesture], tD, tC),
                          get_gesture_duration(gestures[current_gesture], t1))
    ELSE /\ clock' = clock
         /\ event' = Ev("status", None, NoTime, FALSE, 0)

\* Variant: the status display records the readiness it shows as a firing
DrawStatus_marks ==
    /\ pc = "hands"
    /\ handsLeft = 0
    /\ draw_status
    /\ pc' = "key"
    /\ gestures' = IF current_gesture # None
                   THEN [gestures EXCEPT ![current_gesture] =
                           AfterExecute(gestures[current_gesture], event'.flag)]
                   ELSE gestures
    /\ UNCHANGED <<current_gesture, volume, handsLeft, episodeStart,
                   firedAt, held, lastCall, frameSteps, lastFire, lockscreen>>

\* run, lines 68-75
DrawStatus ==
    /\ pc = "hands"
    /\ handsLeft = 0
    /\ draw_status
    /\ pc' = "key"
    /\ UNCHANGED <<gestures, current_gesture, volume, handsLeft, episodeStart,
                   firedAt, held, lastCall, frameSteps, lastFire, lockscreen>>

\* run, lines 77-82: cv2.waitKey(5), then quit on 'q' or ESC
WaitKey ==
    /\ pc = "key"
    /\ \E quit \in BOOLEAN :
         /\ pc' = IF quit THEN "done" ELSE "read"
         /\ event' = Idle
    /\ UNCHANGED <<clock, gestures, current_gesture, volume, handsLeft,
                   episodeStart, firedAt, held, lastCall, frameSteps, lastFire,
                   lockscreen>>

\* Time passes while the loop waits for the camera
Tick ==
    /\ pc = "read"
    /\ clock < MaxTime
    /\ clock' = clock + 1
    /\ event' = Idle
    /\ UNCHANGED <<gestures, current_gesture, volume, pc, handsLeft,
                   episodeStart, firedAt, held, lastCall, frameSteps, lastFire,
                   lockscreen>>

Next ==
    \/ CaptureFail
    \/ Capture
    \/ ProcessHand
    \/ DrawStatus
    \/ WaitKey
    \/ Tick

Spec == Init /\ [][Next]_vars

----------------------------------------------------------------------------
\* The methods of one BaseGesture object called in any order, each with any
\* clock value: the clock of this specification is not monotonic.

\* The object driven
ApiGesture == list_gestures[1]

ApiUnchanged == UNCHANGED <<current_gesture, pc, handsLeft, held, frameSteps, lockscreen>>

ApiStart ==
    \E g \in {ApiGesture} : \E now \in Times :
      /\ gestures' = [gestures EXCEPT ![g] = start_gesture(gestures[g], now)]
      /\ clock' = IF gestures[g].is_active THEN clock ELSE now
      /\ event' = Ev("start", g, now, gestures[g].is_active, 0)
      /\ lastCall' = [lastCall EXCEPT ![g] = "start"]
      /\ episodeStart' = IF lastCall[g] = "start" THEN episodeStart
                         ELSE [episodeStart EXCEPT ![g] = now]
      /\ firedAt' = IF lastCall[g] = "start" THEN firedAt
                    ELSE [firedAt EXCEPT ![g] = NoTime]
      /\ volume' = volume
      /\ lastFire' = lastFire
      /\ ApiUnchanged

ApiEnd ==
    \E g \in {ApiGesture} :
      /\ gestures' = [gestures EXCEPT ![g] = end_gesture(gestures[g])]
      /\ event' = Ev("end", g, NoTime, gestures[g].is_active, 0)
      /\ lastCall' = [lastCall EXCEPT ![g] = "end"]
      /\ episodeStart' = [episodeStart EXCEPT ![g] = NoTime]
      /\ firedAt' = [firedAt EXCEPT ![g] = NoTime]
      /\ UNCHANGED <<clock, volume, lastFire>>
      /\ ApiUnchanged

\* execute and the caller's update of has_activated (app.py, lines 109-112)
ApiExecute ==
    \E g \in {ApiGesture} : \E self \in {gestures[g]} :
    \E tD \in (IF self.is_active THEN Times ELSE {clock}) :
    \E tC \in (IF self.has_activated THEN Reads(tD) ELSE {tD}) :
    \E ready \in {is_ready_to_execute(self, tD, tC)} :
    \E outcome \in (IF ready THEN Outcomes ELSE {"ok"}) :
    \E tM \in (IF ready /\ outcome = "ok" THEN Reads(tC) ELSE {tC}) :
    \E r \in {execute(self, volume, tD, tC, tM, outcome)} :
      /\ gestures' = [gestures EXCEPT ![g] = AfterExecute(r.self, r.ret)]
      /\ clock' = tM
      /\ volume' = r.vol
      /\ event' = IF r.ret THEN Ev("fire", g, tM, ~self.has_activated, 0)
                  ELSE IF r.ready THEN Ev("fail", g, tC, ~self.has_activated, 0)
                  ELSE Ev("process", g, NoTime, FALSE, 0)
      /\ firedAt' = IF r.ret THEN [firedAt EXCEPT ![g] = tM] ELSE firedAt
      /\ lastFire' = IF r.ret THEN tM ELSE lastFire
      /\ UNCHANGED <<episodeStart, lastCall>>
      /\ ApiUnchanged

ApiIsReady ==
    \E g \in {ApiGesture} : \E self \in {gestures[g]} :
    \E tD \in (IF self.is_active THEN Times ELSE {clock}) :
    \E tC \in (IF self.has_activated THEN Reads(tD) ELSE {tD}) :
      /\ clock' = tC
      /\ event' = Ev("ready", g, tC, is_ready_to_execute(self, tD, tC), 0)
      /\ UNCHANGED <<gestures, volume, episodeStart, firedAt, lastCall, lastFire>>
      /\ ApiUnchanged

ApiDuration ==
    \E g \in {ApiGesture} : \E self \in {gestures[g]} :
    \E now \in (IF self.is_active THEN Times ELSE {clock}) :
      /\ clock' = now
      /\ event' = Ev("duration", g, now, FALSE, get_gesture_duration(self, now))
      /\ UNCHANGED <<gestures, volume, episodeStart, firedAt, lastCall, lastFire>>
      /\ ApiUnchanged

NextApi ==
    \/ ApiStart
    \/ ApiEnd
    \/ ApiExecute
    \/ ApiIsReady
    \/ ApiDuration

\* The object is driven from its state after construction, the volume at its maximum
InitApi == Init /\ volume = max_volume

SpecApi == InitApi /\ [][NextApi]_vars

----------------------------------------------------------------------------
\* The methods of one LockScreenGesture object called in any order. The class
\* is not registered in AVAILABLE_GESTURES, so the controller never drives it.
\* Its delays are whole seconds: the clock values here are multiples of 1 s.

LockTimes == {t * LockScreenActivationDelay : t \in Times}

\* Values of a clock read that follows a read of t
LockReads(t) == {t, Min(t + LockScreenActivationDelay, MaxTime * LockScreenActivationDelay)}

LockUnchanged ==
    UNCHANGED <<gestures, current_gesture, volume, pc, handsLeft, episodeStart,
                firedAt, held, lastCall, frameSteps, lastFire>>

LockStart ==
    \E now \in LockTimes :
      /\ lockscreen' = start_gesture(lockscreen, now)
      /\ clock' = IF lockscreen.is_active THEN clock ELSE now
      /\ event' = Ev("start", lockscreen.name, now, lockscreen.is_active, 0)
      /\ LockUnchanged

LockEnd ==
    /\ lockscreen' = end_gesture(lockscreen)
    /\ event' = Ev("end", lockscreen.name, NoTime, lockscreen.is_active, 0)
    /\ clock' = clock
    /\ LockUnchanged

\* execute and the caller's update of has_activated (app.py, lines 109-112);
\* the history records the outcome of the lock commands and the value returned
LockExecute ==
    \E self \in {lockscreen} :
    \E tD \in (IF self.is_active THEN LockTimes ELSE {clock}) :
    \E tC \in (IF self.has_activated THEN LockReads(tD) ELSE {tD}) :
    \E ready \in {is_ready_to_execute(self, tD, tC)} :
    \E outcome \in (IF ready THEN LockOutcomes ELSE {"lock_wait"}) :
    \E tM \in (IF ready /\ ~lock_screen_raises(outcome) THEN LockReads(tC) ELSE {tC}) :
    \E r \in {lock_execute(self, tD, tC, tM, outcome)} :
      /\ lockscreen' = AfterExecute(r.self, r.ret)
      /\ clock' = tM
      /\ event' = Ev(outcome, self.name, tM, r.ret, 0)
      /\ LockUnchanged

NextLock ==
    \/ LockStart
    \/ LockEnd
    \/ LockExecute

SpecLock == Init /\ [][NextLock]_vars

----------------------------------------------------------------------------
\* The frame loop while one gesture is held for ever: every frame has a hand
\* that shows LiveGesture (the first hand reported) and may have more hands,
\* every osascript call succeeds, cap.read() succeeds, nobody quits, and time
\* keeps passing.

LiveGesture == list_gestures[1]

\* The poses that show LiveGesture
LivePoses == {landmarks \in HandPoses : detected_gesture(landmarks) = LiveGesture}

\* The clock is unbounded here. To keep the states finite, when the clock
\* would pass MaxTime every time value is moved back by LiveShift; a time
\* value that would become negative is kept at 0, which is then at least a
\* cooldown in the past, as it is in the run without the move.
LiveShift == MaxTime - Max(VolumeUpCooldown, VolumeDownCooldown)

Shifted(t) == IF t = NoTime THEN NoTime ELSE Max(0, t - LiveShift)

LiveCapture ==
    /\ pc = "read"
    /\ \E n \in 1..MaxHands : handsLeft' = n
    /\ event' = Idle
    /\ pc' = "hands"
    /\ frameSteps' = 0
    /\ UNCHANGED <<clock, gestures, current_gesture, volume, episodeStart, firedAt,
                   held, lastCall, lastFire, lockscreen>>

LiveProcessHand ==
    /\ pc = "hands"
    /\ handsLeft > 0
    /\ \E landmarks \in (IF frameSteps = 0 THEN LivePoses ELSE HandPoses) :
         process_gestures(landmarks)
    /\ event'.op # "fail"
    /\ handsLeft' = handsLeft - 1
    /\ frameSteps' = frameSteps + 1
    /\ pc' = pc
    /\ lockscreen' = lockscreen

LiveWaitKey ==
    /\ pc = "key"
    /\ pc' = "read"
    /\ event' = Idle
    /\ UNCHANGED <<clock, gestures, current_gesture, volume, handsLeft,
                   episodeStart, firedAt, held, lastCall, frameSteps, lastFire,
                   lockscreen>>

LiveTick ==
    /\ pc = "read"
    /\ IF clock < MaxTime
       THEN /\ clock' = clock + 1
            /\ UNCHANGED <<gestures, episodeStart, firedAt, held, lastFire>>
       ELSE /\ clock' = clock - LiveShift + 1
            /\ gestures' = [g \in GestureNames |->
                               [gestures[g] EXCEPT
                                  !.activation_time = Max(0, @ - LiveShift),
                                  !.last_execution_time = Max(0, @ - LiveShift)]]
            /\ episodeStart' = [g \in GestureNames |-> Shifted(episodeStart[g])]
            /\ firedAt' = [g \in GestureNames |-> Shifted(firedAt[g])]
            /\ held' = [held EXCEPT !.since = Shifted(@)]
            /\ lastFire' = Shifted(lastFire)
    /\ event' = Idle
    /\ UNCHANGED <<current_gesture, volume, pc, handsLeft, lastCall, frameSteps,
                   lockscreen>>

NextLive ==
    \/ LiveCapture
    \/ LiveProcessHand
    \/ DrawStatus
    \/ LiveWaitKey
    \/ LiveTick

InitLive == Init /\ volume = max_volume

\* The loop is sequential and never blocks, so each of its steps is taken
\* when it is its turn; time passes between frames again and again.
SpecLive ==
    /\ InitLive
    /\ [][NextLive]_vars
    /\ WF_vars(LiveCapture)
    /\ WF_vars(LiveProcessHand)
    /\ WF_vars(DrawStatus)
    /\ WF_vars(LiveWaitKey)
    /\ SF_vars(LiveTick)

----------------------------------------------------------------------------
\* The two volume gestures fired from every system volume: a gesture is
\* started, execute is called on it at any clock value with any outcome of
\* the osascript calls, and it is ended, in any number of episodes. The
\* history records the volume before execute.

\* The values 'output volume of (get volume settings)' can have
Volumes == min_volume..max_volume

VolUnchanged ==
    UNCHANGED <<pc, handsLeft, episodeStart, firedAt, held, lastCall, frameSteps,
                lastFire, lockscreen>>

VolStart ==
    /\ current_gesture = None
    /\ \E g \in GestureNames :
         /\ gestures' = [gestures EXCEPT ![g] = start_gesture(gestures[g], 0)]
         /\ current_gesture' = g
         /\ event' = Ev("start", g, 0, FALSE, volume)
    /\ clock' = 0
    /\ volume' = volume
    /\ VolUnchanged

\* execute and the caller's update of has_activated (app.py, lines 109-112)
VolExecute ==
    /\ current_gesture # None
    /\ \E g \in {current_gesture} : \E self \in {gestures[g]} :
       \E tD \in Times :
       \E ready \in {is_ready_to_execute(self, tD, tD)} :
       \E outcome \in (IF ready THEN Outcomes ELSE {"ok"}) :
       \E r \in {execute(self, volume, tD, tD, tD, outcome)} :
         /\ gestures' = [gestures EXCEPT ![g] = AfterExecute(r.self, r.ret)]
         /\ clock' = tD
         /\ volume' = r.vol
         /\ event' = IF r.ret THEN Ev("fire", g, tD, ~self.has_activated, volume)
                     ELSE IF r.ready THEN Ev("fail", g, tD, ~self.has_activated, volume)
                     ELSE Ev("process", g, NoTime, FALSE, volume)
    /\ current_gesture' = current_gesture
    /\ VolUnchanged

VolEnd ==
    /\ current_gesture # None
    /\ gestures' = [gestures EXCEPT ![current_gesture] = end_gesture(gestures[current_gesture])]
    /\ current_gesture' = None
    /\ event' = Ev("end", current_gesture, NoTime, FALSE, volume)
    /\ UNCHANGED <<clock, volume>>
    /\ VolUnchanged

NextVolume ==
    \/ VolStart
    \/ VolExecute
    \/ VolEnd

\* The program starts with the system volume at any value
InitVolume ==
    /\ clock = 0
    /\ gestures = [n \in GestureNames |-> get_gesture(n)]
    /\ current_gesture = None
    /\ volume \in Volumes
    /\ pc = "read"
    /\ handsLeft = 0
    /\ event = Idle
    /\ episodeStart = [n \in GestureNames |-> NoTime]
    /\ firedAt = [n \in GestureNames |-> NoTime]
    /\ held = NotHeld
    /\ lastCall = [n \in GestureNames |-> None]
    /\ frameSteps = 0
    /\ lastFire = NoTime
    /\ lockscreen = LockScreenGesture

SpecVolume == InitVolume /\ [][NextVolume]_vars

----------------------------------------------------------------------------
\* Properties

\* Clock values at which readiness is asked, from t on
From(t, n) == t..(t + n)

\* C1. Hold delay: in an episode opened by start_gesture at t0 in which nothing
\* has fired yet, is_ready_to_execute is false at every t with
\* t0 <= t < t0 + activation_delay and true at every t >= t0 + activation_delay.
C1_HoldDelay ==
    \A g \in GestureNames :
      (episodeStart[g] # NoTime /\ firedAt[g] = NoTime) =>
        \A tD \in From(episodeStart[g], gestures[g].activation_delay + 2) :
        \A tC \in From(tD, 1) :
          is_ready_to_execute(gestures[g], tD, tC)
            <=> (tD >= episodeStart[g] + gestures[g].activation_delay)

\* C1 witness: the action was attempted, and failed, exactly at t0 + activation_delay
C1_Witness ==
    /\ event.op = "fail"
    /\ event.flag
    /\ firedAt[event.g] = NoTime
    /\ event.t = episodeStart[event.g] + gestures[event.g].activation_delay

\* The scenario begin(0), fire at 0.2 for a gesture with delay 0.2 and cooldown 0.6
ScenarioBegun == start_gesture(VolumeUpGesture, 0)

ScenarioFired == AfterExecute(mark_executed(ScenarioBegun, 2), TRUE)

\* C2. Repeat cooldown: while the gesture stays active after a firing recorded
\* at t1, is_ready_to_execute is false at every t with t1 <= t < t1 + cooldown
\* and true from t1 + cooldown on; with delay 0.2 and cooldown 0.6, begin(0) and
\* a firing at 0.2 give not ready at 0.1 and 0.5 and ready at 0.2 and 0.8.
C2_RepeatCooldown ==
    /\ \A g \in GestureNames :
         firedAt[g] # NoTime =>
           \A tD \in From(firedAt[g], gestures[g].cooldown + 2) :
           \A tC \in From(tD, 1) :
             is_ready_to_execute(gestures[g], tD, tC)
               <=> (tC >= firedAt[g] + gestures[g].cooldown)
    /\ ~is_ready_to_execute(ScenarioBegun, 1, 1)
    /\ is_ready_to_execute(ScenarioBegun, 2, 2)
    /\ ~is_ready_to_execute(ScenarioFired, 5, 5)
    /\ is_ready_to_execute(ScenarioFired, 8, 8)

\* C2 witness: a repeat firing of a held gesture, made when its cooldown had passed
C2_Witness ==
    /\ event.op = "fire"
    /\ ~event.flag
    /\ gestures[event.g].is_active

\* C3. A failed action leaves the firing state untouched: last_execution_time,
\* has_activated and the volume are as before the step, and the gesture is
\* still ready at every later clock value.
C3_FailedActionKeepsState ==
    [][event'.op = "fail" =>
         /\ gestures'[event'.g].last_execution_time
              = gestures[event'.g].last_execution_time
         /\ gestures'[event'.g].has_activated = gestures[event'.g].has_activated
         /\ volume' = volume
         /\ \A tD \in From(clock', 2) : \A tC \in From(tD, 1) :
              is_ready_to_execute(gestures'[event'.g], tD, tC)]_vars

\* C3 witness: the action failed in the cooldown phase and the gesture is still ready
C3_Witness ==
    /\ event.op = "fail"
    /\ ~event.flag
    /\ is_ready_to_execute(gestures[event.g], clock, clock)

\* C4. is_ready_to_execute is false whenever the gesture is inactive, whatever
\* the clock and last_execution_time, so from every end_gesture to the next
\* start_gesture; begin(5), end(), is_ready at 5.3 is false.
C4_InactiveNeverReady ==
    /\ \A g \in GestureNames :
         (~gestures[g].is_active \/ lastCall[g] = "end") =>
           \A tD \in From(0, MaxTime + 1) : \A tC \in From(0, MaxTime + 1) :
             ~is_ready_to_execute(gestures[g], tD, tC)
    /\ ~is_ready_to_execute(end_gesture(start_gesture(VolumeUpGesture, 50)), 53, 53)

\* C4 witness: readiness asked of a gesture that fired, was ended, and whose
\* cooldown has passed
C4_Witness ==
    /\ event.op = "ready"
    /\ lastCall[event.g] = "end"
    /\ gestures[event.g].last_execution_time > 0
    /\ clock >= gestures[event.g].last_execution_time + gestures[event.g].cooldown

\* C5. Debounce end to end: the first action of an episode is performed only
\* if the gesture was detected in every frame, for every hand processed, during
\* at least activation_delay before the firing.
C5_FirstFireAfterContinuousHold ==
    (event.op = "fire" /\ event.flag) =>
      /\ held.g = event.g
      /\ event.t - held.since >= gestures[event.g].activation_delay

\* C6. Mutual exclusion: at most one gesture is active, a gesture is active
\* exactly when it is current_gesture, and an inactive gesture has
\* activation_time 0.
C6_MutualExclusion ==
    /\ Cardinality({g \in GestureNames : gestures[g].is_active}) <= 1
    /\ \A g \in GestureNames : gestures[g].is_active <=> (current_gesture = g)
    /\ \A g \in GestureNames : ~gestures[g].is_active => gestures[g].activation_time = 0

\* C6 witness: the controller went from one gesture directly to the other
C6_Witness ==
    /\ current_gesture = "volume_down"
    /\ gestures["volume_down"].is_active
    /\ lastCall["volume_up"] = "end"
    /\ event.op = "process"
    /\ clock > 0

\* C7. has_activated is true only while is_active is true, it is false after
\* every end_gesture, and an episode in which nothing has fired is in the
\* hold-delay phase.
C7_ActivatedOnlyWhileActive ==
    \A g \in GestureNames :
      /\ gestures[g].has_activated => gestures[g].is_active
      /\ lastCall[g] = "end" => ~gestures[g].has_activated
      /\ (episodeStart[g] # NoTime /\ firedAt[g] = NoTime) => ~gestures[g].has_activated

\* C7 witness: a gesture that fired was ended and shown again
C7_Witness ==
    \E g \in GestureNames :
      /\ gestures[g].last_execution_time > 0
      /\ lastCall[g] = "start"
      /\ episodeStart[g] > gestures[g].last_execution_time
      /\ firedAt[g] = NoTime

\* C8. After any sequence of start_gesture / end_gesture calls is_active is
\* true exactly when the last call was start_gesture (false when there was
\* none), and a repeated start_gesture or end_gesture gives the is_active of
\* a single one.
C8_ActiveIffLastCallStart ==
    \A g \in GestureNames :
      /\ gestures[g].is_active <=> (lastCall[g] = "start")
      /\ \A t1 \in Times : \A t2 \in Times :
           start_gesture(start_gesture(gestures[g], t1), t2).is_active
             = start_gesture(gestures[g], t1).is_active
      /\ end_gesture(end_gesture(gestures[g])).is_active
           = end_gesture(gestures[g]).is_active
      /\ start_gesture(gestures[g], 0).is_active
      /\ ~end_gesture(gestures[g]).is_active

\* C8 witness: end_gesture was called on a gesture that was already inactive
\* after it had been active
C8_Witness ==
    /\ event.op = "end"
    /\ ~event.flag
    /\ gestures[event.g].last_execution_time > 0

\* C9. start_gesture on an active gesture changes nothing; on an inactive
\* gesture it sets activation_time to the clock value and has_activated to
\* false; in both cases last_execution_time and the volume stay as they are.
C9_StartGestureEffect ==
    [][event'.op = "start" =>
         /\ gestures[event'.g].is_active => gestures'[event'.g] = gestures[event'.g]
         /\ ~gestures[event'.g].is_active =>
              /\ gestures'[event'.g].is_active
              /\ gestures'[event'.g].activation_time = event'.t
              /\ ~gestures'[event'.g].has_activated
         /\ gestures'[event'.g].last_execution_time
              = gestures[event'.g].last_execution_time
         /\ volume' = volume]_vars

\* C9 witness: start_gesture called, later than the activation, on a gesture
\* that is active and has fired
C9_Witness ==
    /\ event.op = "start"
    /\ event.flag
    /\ gestures[event.g].has_activated
    /\ event.t > gestures[event.g].activation_time

\* C10. get_gesture_duration returns max(0, now - activation_time) while the
\* gesture is active and 0 while it is inactive, for every clock value.
C10_DurationClamped ==
    event.op = "duration" =>
      event.val = (IF gestures[event.g].is_active
                   THEN Max(0, event.t - gestures[event.g].activation_time)
                   ELSE 0)

\* C11. The action is performed and the firing recorded only in a step whose
\* readiness check passed: the gesture is active, a first firing comes at
\* least activation_delay after the start of the episode, a repeat firing at
\* least cooldown after the previous one, and last_execution_time or the
\* volume change only in a step that performed the action.
C11_FireOnlyWhenReady ==
    [][/\ event'.op = "fire" =>
            /\ lastCall'[event'.g] = "start"
            /\ gestures'[event'.g].is_active
            /\ current_gesture' = event'.g
            /\ event'.flag =>
                 event'.t >= episodeStart'[event'.g] + gestures'[event'.g].activation_delay
            /\ ~event'.flag =>
                 /\ firedAt[event'.g] # NoTime
                 /\ event'.t >= firedAt[event'.g] + gestures'[event'.g].cooldown
            /\ volume' = new_volume(event'.g, volume)
       /\ \A g \in GestureNames :
            gestures'[g].last_execution_time # gestures[g].last_execution_time =>
              (event'.op = "fire" /\ event'.g = g)
       /\ volume' # volume => event'.op = "fire"]_vars

\* C11 witness: a volume-down firing that changed the volume
C11_Witness ==
    /\ event.op = "fire"
    /\ event.g = "volume_down"
    /\ volume = max_volume - volume_step

\* C12. After a step in which execute returned True, last_execution_time is
\* the time of that firing and has_activated is true, so the next readiness
\* check is in the cooldown phase: false before that time + cooldown.
C12_FiringRecorded ==
    event.op = "fire" =>
      /\ gestures[event.g].last_execution_time = event.t
      /\ gestures[event.g].has_activated
      /\ firedAt[event.g] = event.t
      /\ \A tD \in From(clock, gestures[event.g].cooldown + 1) : \A tC \in From(tD, 1) :
           is_ready_to_execute(gestures[event.g], tD, tC)
             <=> (tC >= event.t + gestures[event.g].cooldown)

\* C12 witness: the first firing of an episode, at the clock value of the state
C12_Witness ==
    /\ event.op = "fire"
    /\ event.flag
    /\ clock = event.t
    /\ pc = "hands"

\* C13. With a monotonic clock last_execution_time never decreases, and it
\* changes only in a step with a successful firing of that gesture.
C13_LastExecutionMonotonic ==
    [][\A g \in GestureNames :
         /\ gestures'[g].last_execution_time >= gestures[g].last_execution_time
         /\ gestures'[g].last_execution_time # gestures[g].last_execution_time =>
              (event'.op = "fire" /\ event'.g = g /\ gestures[g].last_execution_time <= clock)
         /\ event'.op \in {"fail", "process", "status", "idle"} =>
              gestures'[g].last_execution_time = gestures[g].last_execution_time]_vars

\* C13 witness: a gesture fired, was ended, and the other gesture fired later
C13_Witness ==
    /\ event.op = "fire"
    /\ event.g = "volume_down"
    /\ lastCall["volume_up"] = "end"
    /\ gestures["volume_up"].last_execution_time > 0
    /\ gestures["volume_down"].last_execution_time > gestures["volume_up"].last_execution_time

\* C14. In every frame whose detected kind (none when the frame has no hand)
\* differs from the current gesture, the old gesture is ended, the new one is
\* started and current_gesture is updated in that frame: when the frame's
\* processing is over, the current gesture is the kind the frame showed and
\* only that gesture is active.
C14_CurrentFollowsDetection ==
    pc = "key" =>
      /\ current_gesture = held.g
      /\ \A g \in GestureNames : gestures[g].is_active <=> (g = held.g)

\* C15. In one frame the change of current gesture and the readiness/fire
\* step are performed at most once, however many hands the frame reports.
C15_OneStepPerFrame == frameSteps <= 1

\* C16. The detected kind of a hand is the first gesture in registration
\* order whose detector matches, None when none matches, and that kind is the
\* current gesture after the hand is processed; when several detectors match,
\* the first one wins.
C16_FirstMatchPriority ==
    /\ event.op \in {"process", "fire", "fail"} =>
         /\ current_gesture = (IF event.val \in {1, 3} THEN "volume_up"
                               ELSE IF event.val = 2 THEN "volume_down"
                               ELSE None)
         /\ event.g = current_gesture
    /\ \A landmarks \in HandPoses :
         detected_gesture(landmarks) =
           (IF detect(list_gestures[1], landmarks) THEN list_gestures[1]
            ELSE IF detect(list_gestures[2], landmarks) THEN list_gestures[2]
            ELSE None)
    /\ \A matches \in [1..Len(list_gestures) -> BOOLEAN] :
         first_match(matches, 1) =
           (IF matches[1] THEN 1 ELSE IF matches[2] THEN 2 ELSE 0)

\* C16 witness: a hand showing thumbs down was processed while volume_up was
\* active before it in the same frame
C16_Witness ==
    /\ event.op = "process"
    /\ event.val = 2
    /\ current_gesture = "volume_down"
    /\ frameSteps = 2
    /\ lastCall["volume_up"] = "end"

\* C17. When both lock commands fail, LockScreenGesture.execute returns False
\* and records nothing: last_execution_time and has_activated stay as they
\* were and no cooldown starts.
C17_FailedLockNotRecorded ==
    [][event'.op = "lock_all_failed" =>
         /\ ~event'.flag
         /\ lockscreen'.last_execution_time = lockscreen.last_execution_time
         /\ lockscreen'.has_activated = lockscreen.has_activated]_vars

\* C18. The status display's calls of get_gesture_duration and
\* is_ready_to_execute change no field of any gesture, not the current
\* gesture, and perform no action.
C18_QueriesArePure ==
    [][event'.op = "status" =>
         /\ gestures' = gestures
         /\ current_gesture' = current_gesture
         /\ volume' = volume
         /\ firedAt' = firedAt
         /\ lastFire' = lastFire
         /\ lastCall' = lastCall]_vars

\* C18 witness: the status display showed READY for a gesture that has not fired
C18_Witness ==
    /\ event.op = "status"
    /\ event.flag
    /\ event.g # None
    /\ ~gestures[event.g].has_activated
    /\ firedAt[event.g] = NoTime

\* C19. With a monotonic clock a successful firing comes at least
\* min(activation_delay, cooldown) of its gesture after the previous successful
\* firing of any gesture, and a repeat firing of an episode at least cooldown
\* after the previous firing, which is that episode's.
C19_MinimumSpacing ==
    [][event'.op = "fire" =>
         /\ lastFire # NoTime =>
              event'.t - lastFire >= Min(gestures[event'.g].activation_delay,
                                         gestures[event'.g].cooldown)
         /\ ~event'.flag =>
              /\ lastFire = firedAt[event'.g]
              /\ event'.t - lastFire >= gestures[event'.g].cooldown
         /\ lastFire' = event'.t]_vars

\* C19 witness: a first firing of volume_down less than its cooldown after
\* the last firing of volume_up
C19_Witness ==
    /\ event.op = "fire"
    /\ event.flag
    /\ event.g = "volume_down"
    /\ gestures["volume_up"].last_execution_time > 0
    /\ event.t - gestures["volume_up"].last_execution_time < gestures["volume_down"].cooldown
    /\ lastFire = event.t

\* C20. While the gesture is shown in every frame, time passes and the OS
\* action succeeds, the action fires again and again, whatever the number of
\* hands the frames report.
C20_HeldGestureKeepsFiring == []<>(event.op = "fire" /\ event.g = LiveGesture)

\* C21. From a volume v in 0..100 a successful volume-up leaves the volume at
\* min(v + 5, 100) and a successful volume-down at max(v - 5, 0); the volume
\* stays in 0..100 after any sequence of firings, volume-up never lowers it,
\* volume-down never raises it, and a step without a firing leaves it alone.
C21_VolumeBounds ==
    /\ volume \in 0..100
    /\ (event.op = "fire" /\ event.g = "volume_up") =>
         /\ volume = (IF event.val + volume_step <= max_volume
                      THEN event.val + volume_step ELSE max_volume)
         /\ volume >= event.val
    /\ (event.op = "fire" /\ event.g = "volume_down") =>
         /\ volume = (IF event.val - volume_step >= min_volume
                      THEN event.val - volume_step ELSE min_volume)
         /\ volume <= event.val
    /\ event.op \in {"start", "end", "fail", "process"} => volume = event.val

\* C21 witness: a volume-down firing from a volume under the step ended at the
\* minimum, after a volume-up firing earlier in the run
C21_Witness ==
    /\ event.op = "fire"
    /\ event.g = "volume_down"
    /\ event.val > min_volume
    /\ event.val < volume_step
    /\ volume = min_volume
    /\ gestures["volume_up"].last_execution_time > 0

====
